---- MODULE Spec2Model ----
(***************************************************************************)
(* Sandwich Inspector: page reconciliation and review-state persistence.   *)
(*                                                                         *)
(* The model follows src/sandwich_inspector_app.py.  A document folder on  *)
(* disk (final_output.json, 03_cleaned_json/page_N.json,                   *)
(* 01_parsed_markdown/page_N.md, <doc>.pdf, inspector_metadata.json) and   *)
(* the Streamlit session (st.session_state) are the main state variables.  *)
(* Page indices are 0-based as in the Python code; page numbers are        *)
(* 1-based.  Sequences are 1-based, so processed_pages[i + 1] is the       *)
(* Python processed_pages[i].                                              *)
(***************************************************************************)
EXTENDS Integers, Sequences, FiniteSets, TLC

VARIABLES disk, session_state, last, ops, faults, shelf, writers, bundle

vars == <<disk, session_state, last, ops, faults, shelf, writers, bundle>>

\* What lies outside the one session on the one folder: another document
\* folder of processed_documents/ (shelf), other inspector processes saving
\* the same folder (writers), and the export bundle (bundle).
aux == <<shelf, writers, bundle>>

(***************************************************************************)
(* Bounds of the model.                                                    *)
(***************************************************************************)
\* Highest physical page number of a document folder.
MaxPage == 2
\* Number of loading, editing and saving actions in one run (navigation and
\* entering edit mode, which change neither content nor files, are free).
MaxOps == 3
\* The same for the runs in which writes can fail.
MaxFaultOps == 2
\* Number of I/O errors that strike in such a run.
MaxFaults == 1
\* Number of inspector processes that save the same folder at the same time.
NumWriters == 2

PageNums == 1..MaxPage

(***************************************************************************)
(* Values.  Texts are records [k, n]: a kind and the page number the text  *)
(* was produced for, so that texts of different pages and of different     *)
(* sources are different values.                                           *)
(***************************************************************************)
Text(k, n) == [k |-> k, n |-> n]

\* A dict key that is absent (page_data.get falls through to its default).
Absent == Text("absent", 0)
\* The empty string: falsy in Python.
EmptyText == Text("empty", 0)
\* What the reviewer types into the markdown editor.
EditedText == Text("edited", 0)
\* The literal "useless".
UselessText == Text("useless", 0)
\* What a file holds after a write that failed part-way.
PartialText == Text("partial", 0)

\* raw_content the pipeline stored in final_output.json for page n.
FinalContent(n) == Text("final", n)
\* The first-pass rendering 01_parsed_markdown/page_n.md.
MdContent(n) == Text("md", n)
\* The title the pipeline extracted for page n.
OrigTitle(n) == Text("title", n)

Truthy(t) == t.k \notin {"empty", "absent"}

\* ProcessedTable(title, data); a row is abstracted to a token.
ProcessedTable(title, data) == [title |-> title, data |-> data]

\* [{"content": "useless"}]
UselessRows == <<"content=useless">>

UselessTable == ProcessedTable(UselessText, UselessRows)

\* The tables the pipeline extracted for page n: none, two or one.
OrigTables(n) ==
    IF n % 3 = 1
    THEN << >>
    ELSE IF n % 3 = 2
    THEN << ProcessedTable(Text("table_a", n), <<"row1", "row2">>),
            ProcessedTable(Text("table_b", n), <<"row1">>) >>
    ELSE << ProcessedTable(Text("table_a", n), <<"row1">>) >>

OrigKeywords == <<"kw">>

ProcessedPage(title, content, tables, keywords, pdf_page_number) ==
    [title |-> title, content |-> content, tables |-> tables,
     keywords |-> keywords, pdf_page_number |-> pdf_page_number]

\* The placeholder numbered by array index instead of page number.
placeholder_by_index(page_num) ==
    ProcessedPage(Text("missing", page_num), Text("placeholder", page_num), << >>,
                  <<"missing", "unprocessed", "needs_attention", "placeholder">>,
                  page_num - 1)

create_missing_page_placeholder(page_num) ==
    ProcessedPage(Text("missing", page_num), Text("placeholder", page_num), << >>,
                  <<"missing", "unprocessed", "needs_attention", "placeholder">>,
                  page_num)

(***************************************************************************)
(* The document folder.                                                    *)
(***************************************************************************)
Max(S) == CHOOSE m \in S : \A x \in S : x <= m

Min(S) == CHOOSE m \in S : \A x \in S : m <= x

RECURSIVE Ascending(_)
Ascending(S) == IF S = {} THEN << >> ELSE <<Min(S)>> \o Ascending(S \ {Min(S)})

Range(s) == {s[i] : i \in 1..Len(s)}

\* A table of final_output.json: title and rows are owned by the inspector,
\* table_id stands for the fields it does not own.
FinalTable(table_id, title, rows) == [table_id |-> table_id, title |-> title, rows |-> rows]

\* An entry of the pages array of final_output.json as the pipeline wrote it.
\* page_id is the number in "page_<n>" (0: no page_id key, -1: a page_id that
\* does not match page_(\d+)); page_number is 0 when the key is absent;
\* summary stands for the fields the inspector does not own.  form is "dict"
\* for a JSON object; an element of the array that is not an object is
\* "string" (a JSON string) or "null".
FinalEntry(n) ==
    [form |-> "dict", page_id |-> n, page_number |-> 0, title |-> OrigTitle(n),
     raw_content |-> FinalContent(n), content |-> Absent,
     keywords |-> OrigKeywords,
     tables |-> [j \in 1..Len(OrigTables(n)) |->
                    FinalTable(Text("pipeline", j), OrigTables(n)[j].title,
                               OrigTables(n)[j].data)],
     summary |-> Text("summary", n)]

NoFinal == [exists |-> FALSE, has_pages |-> FALSE, pages |-> << >>]

\* 03_cleaned_json/page_n.json: {title, keywords, tables[{title, data}]}.
JsonFile(title, keywords, tables) ==
    [st |-> "ok", title |-> title, keywords |-> keywords, tables |-> tables]

NoJsonFile == [st |-> "absent", title |-> Absent, keywords |-> << >>, tables |-> << >>]

\* A page_n.json that a failed write left truncated: json.load raises on it.
PartialJsonFile == [st |-> "partial", title |-> Absent, keywords |-> << >>, tables |-> << >>]

MdFile(text) == [st |-> "ok", text |-> text]

NoMdFile == [st |-> "absent", text |-> Absent]

\* inspector_metadata.json.  full is FALSE for a file that save_portfolio_tag
\* created: it holds the portfolio and last_updated keys only.
\* page_statuses is keyed by strings, as JSON object keys are; last_updated
\* is the clock reading at the write (0: no file).
NoMetadata ==
    [st |-> "absent", full |-> FALSE, page_statuses |-> << >>,
     flagged_pages |-> {}, missing_pages |-> {}, incomplete_pages |-> {},
     useless_pages |-> {}, portfolio |-> "None", last_updated |-> 0]

PartialMetadata == [NoMetadata EXCEPT !.st = "partial"]

\* The PDF: pages = 0 stands for a file fitz.open cannot read.
PdfChoices ==
    {[exists |-> FALSE, pages |-> 0]} \cup {[exists |-> TRUE, pages |-> n] : n \in 0..MaxPage}

\* A folder in the consolidated schema, as the pipeline leaves it: entries for
\* the page numbers S, first-pass renderings for the same pages when the
\* 01_parsed_markdown folder was kept.
ConsolidatedFolder(S, md_dir, pdf) ==
    [pdf |-> pdf,
     final |-> [exists |-> TRUE, has_pages |-> TRUE,
                pages |-> [i \in 1..Cardinality(S) |-> FinalEntry(Ascending(S)[i])]],
     json_dir |-> FALSE,
     md_dir |-> md_dir,
     json |-> [n \in PageNums |-> NoJsonFile],
     md |-> [n \in PageNums |-> IF md_dir /\ n \in S THEN MdFile(MdContent(n)) ELSE NoMdFile],
     meta |-> NoMetadata]

\* A folder in the legacy per-page schema: page_n.json for n in J, page_n.md
\* for n in M.
LegacyFolder(J, M, pdf) ==
    [pdf |-> pdf,
     final |-> NoFinal,
     json_dir |-> TRUE,
     md_dir |-> TRUE,
     json |-> [n \in PageNums |->
                  IF n \in J THEN JsonFile(OrigTitle(n), OrigKeywords, OrigTables(n))
                  ELSE NoJsonFile],
     md |-> [n \in PageNums |-> IF n \in M THEN MdFile(MdContent(n)) ELSE NoMdFile],
     meta |-> NoMetadata]

Folders ==
    {ConsolidatedFolder(S, d, p) : S \in (SUBSET PageNums) \ {{}}, d \in BOOLEAN, p \in PdfChoices}
    \cup {LegacyFolder(J, M, p) : J \in SUBSET PageNums, M \in SUBSET PageNums, p \in PdfChoices}

\* Folders in which the data of one page is malformed: an element of the
\* pages array that is not an object, or a page_n.json that is not valid JSON.
MalformedFolders ==
    UNION {{[ConsolidatedFolder(S, d, p) EXCEPT !.final.pages[i].form = f] :
               i \in 1..Cardinality(S), f \in {"string", "null"}} :
           S \in (SUBSET PageNums) \ {{}}, d \in BOOLEAN, p \in PdfChoices}
    \cup UNION {{[LegacyFolder(J, M, p) EXCEPT !.json[b] = PartialJsonFile] : b \in J} :
                J \in SUBSET PageNums, M \in SUBSET PageNums, p \in PdfChoices}

\* No other document folder.
NoFolder == [pdf |-> [exists |-> FALSE, pages |-> 0], final |-> NoFinal,
             json_dir |-> FALSE, md_dir |-> FALSE,
             json |-> [n \in PageNums |-> NoJsonFile],
             md |-> [n \in PageNums |-> NoMdFile],
             meta |-> NoMetadata]

\* No other process has the folder open.
NoWriters == << >>

\* No export was made: the bundle's files, the file at which the export
\* stopped ("none": it did not), and the messages shown.
NoBundle == [files |-> {}, stopped_at |-> "none", errors |-> 0, success |-> FALSE]

\* An entry as other versions of the pipeline write it: the page number under
\* page_id ("page_id"), under page_number with no page_id key ("page_number"),
\* or under page_number next to a page_id that does not match page_(\d+)
\* ("unparsed_id").
EntryStyles == {"page_id", "page_number", "unparsed_id"}

VariantEntry(n, style) ==
    [FinalEntry(n) EXCEPT
       !.page_id = IF style = "page_id" THEN n ELSE IF style = "page_number" THEN 0 ELSE -1,
       !.page_number = IF style = "page_id" THEN 0 ELSE n]

\* The orders in which a pages array lists page numbers: no number twice.
PageOrders ==
    {o \in UNION {[1..k -> PageNums] : k \in 1..MaxPage} :
        \A i, j \in DOMAIN o : o[i] = o[j] => i = j}

\* final_output.json without a usable pages array.
EmptyFinal == [exists |-> TRUE, has_pages |-> FALSE, pages |-> << >>]

NoPdf == [exists |-> FALSE, pages |-> 0]

\* Consolidated folders whose pages array is in any order, its entries in any
\* one style.
VariantFolders ==
    {[ConsolidatedFolder(Range(o), FALSE, p) EXCEPT
         !.final.pages = [i \in 1..Len(o) |-> VariantEntry(o[i], style)]] :
        o \in PageOrders, style \in EntryStyles,
        p \in {NoPdf, [exists |-> TRUE, pages |-> MaxPage]}}

\* Folders with any combination of final_output.json (absent, or present
\* without pages) and the two per-page directories.
StructureFolders ==
    {[LegacyFolder(IF jd THEN J ELSE {}, IF mdd THEN J ELSE {}, NoPdf) EXCEPT
         !.final = fin, !.json_dir = jd, !.md_dir = mdd] :
        J \in SUBSET PageNums,
        jd \in BOOLEAN, mdd \in BOOLEAN, fin \in {NoFinal, EmptyFinal}}

\* One session on one folder: no other document, no other process, no export.
Alone ==
    /\ shelf = NoFolder
    /\ writers = NoWriters
    /\ bundle = NoBundle

(***************************************************************************)
(* The session: st.session_state after init_session_state.                 *)
(***************************************************************************)
init_session_state ==
    [current_document |-> "None",
     current_page_idx |-> 0,
     processed_pages |-> << >>,
     page_statuses |-> << >>,
     flagged_pages |-> {},
     document_folder |-> "None",
     edit_mode |-> FALSE,
     missing_pages |-> {},
     incomplete_pages |-> {},
     useless_pages |-> {},
     portfolio_tag |-> "None"]

\* The last user action that loaded, edited or saved: which, on which page
\* index, whether a write of its save did not complete (failed), and whether
\* save_current_state raised to its caller (reported).  Navigation and
\* entering edit mode leave it alone.  ops is the number of loading, editing
\* and saving actions the run may still take, faults the number of I/O errors
\* that may still strike.
NoAction == [op |-> "none", idx |-> 0, failed |-> FALSE, reported |-> FALSE]

Did(op, failed, reported) ==
    [op |-> op, idx |-> session_state.current_page_idx, failed |-> failed, reported |-> reported]

\* A fresh session on a folder the pipeline produced; no I/O error strikes.
Init ==
    /\ disk \in Folders
    /\ session_state = init_session_state
    /\ last = NoAction
    /\ ops = MaxOps
    /\ faults = 0
    /\ Alone

\* The same, in an environment where writes can fail.
FaultInit ==
    /\ disk \in Folders
    /\ session_state = init_session_state
    /\ last = NoAction
    /\ ops = MaxFaultOps
    /\ faults = MaxFaults
    /\ Alone

\* A fresh session on a folder with a malformed page; no I/O error strikes.
MalformedInit ==
    /\ disk \in MalformedFolders
    /\ session_state = init_session_state
    /\ last = NoAction
    /\ ops = MaxOps
    /\ faults = 0
    /\ Alone

\* A fresh session on a folder of another layout; no I/O error strikes.
VariantInit ==
    /\ disk \in VariantFolders \cup StructureFolders
    /\ session_state = init_session_state
    /\ last = NoAction
    /\ ops = MaxOps
    /\ faults = 0
    /\ Alone

(***************************************************************************)
(* Loading.                                                                *)
(***************************************************************************)
\* Keys of the page_statuses dict: Python ints in the session, strings once
\* the dict went through json.dump and json.load.
IntKey(i) == [t |-> "int", v |-> i]

StrKey(i) == [t |-> "str", v |-> i]

\* page_statuses.get(page_index, 'pending')
page_status(statuses, page_index) ==
    IF IntKey(page_index) \in DOMAIN statuses THEN statuses[IntKey(page_index)] ELSE "pending"

\* fitz.open + len(doc), 0 on any error.
get_pdf_page_count(pdf) == pdf.pages

total_pdf_pages(d) == IF d.pdf.exists THEN get_pdf_page_count(d.pdf) ELSE 0

\* The page number of the entry at 1-based position i of the pages array:
\* i by default, the number in page_id when page_id is present and matches,
\* page_number only when there is no page_id key at all.  On a string both
\* key tests are substring tests and fail.
entry_page_num(entry, i) ==
    IF entry.form # "dict" THEN i
    ELSE IF entry.page_id # 0
    THEN (IF entry.page_id > 0 THEN entry.page_id ELSE i)
    ELSE IF entry.page_number # 0 THEN entry.page_number ELSE i

\* processed_data_by_page: a later entry with the same number replaces an
\* earlier one.
processed_data_by_page(pages_data) ==
    LET nums == {entry_page_num(pages_data[i], i) : i \in 1..Len(pages_data)}
        lastAt(n) == Max({i \in 1..Len(pages_data) : entry_page_num(pages_data[i], i) = n})
    IN  [n \in nums |-> pages_data[lastAt(n)]]

_document_has_been_edited(d) ==
    /\ d.meta.st = "ok"
    /\ \/ \E k \in DOMAIN d.meta.page_statuses :
              d.meta.page_statuses[k] \in {"approved", "flagged"}
       \/ d.meta.useless_pages # {}
       \/ d.meta.flagged_pages # {}
       \/ d.meta.portfolio # "None"

\* page_data.get('raw_content', page_data.get('content', ''))
entry_content(entry) ==
    IF entry.raw_content # Absent THEN entry.raw_content
    ELSE IF entry.content # Absent THEN entry.content
    ELSE EmptyText

\* The first-pass rendering preferred whether or not the document was edited.
select_content_md_first(d, page_num, entry) ==
    IF d.md_dir /\ d.md[page_num].st = "ok"
    THEN d.md[page_num].text
    ELSE entry_content(entry)

\* SMART CONTENT SELECTION of _load_from_final_output.
select_content(d, page_num, entry) ==
    IF _document_has_been_edited(d)
    THEN entry_content(entry)
    ELSE IF d.md_dir /\ d.md[page_num].st = "ok"
         THEN d.md[page_num].text
         ELSE entry_content(entry)

\* Tables with at least one row become ProcessedTable objects; the others
\* are dropped.
has_rows(t) == t.rows # << >>

has_data(t) == t.data # << >>

final_tables(tables_data) ==
    LET kept == SelectSeq(tables_data, has_rows)
    IN  [j \in 1..Len(kept) |-> ProcessedTable(kept[j].title, kept[j].rows)]

legacy_tables(tables_data) ==
    LET kept == SelectSeq(tables_data, has_data)
    IN  [j \in 1..Len(kept) |-> ProcessedTable(kept[j].title, kept[j].data)]

\* The range extended to every page number observed, beyond the PDF's count.
page_range_longest(total, observed) ==
    IF observed = {} THEN 1..total
    ELSE 1..(IF total > Max(observed) THEN total ELSE Max(observed))

\* The range of page numbers a load covers: the PDF's when it has one,
\* otherwise up to the highest number observed.
page_range(total, observed) ==
    IF total > 0 THEN 1..total
    ELSE IF observed = {} THEN {} ELSE 1..Max(observed)

\* The page record _load_from_final_output builds for page_num; an entry
\* without a get method raises inside the page's try block and the page
\* becomes a placeholder.
final_page(d, by_page, page_num) ==
    IF page_num \in DOMAIN by_page /\ by_page[page_num].form = "dict"
    THEN LET entry == by_page[page_num]
         IN  ProcessedPage(entry.title, select_content(d, page_num, entry),
                           final_tables(entry.tables),
                           entry.keywords, page_num)
    ELSE create_missing_page_placeholder(page_num)

\* What _load_from_final_output hands to _finalize_document_loading; ok is
\* FALSE when it returns without touching the session: no pages, or the loop
\* that maps entries to page numbers raised ('page_id' in None is a TypeError
\* outside every per-page try block).
_load_from_final_output(d) ==
    LET pages_data == IF d.final.has_pages THEN d.final.pages ELSE << >>
        by_page == processed_data_by_page(pages_data)
        range == page_range(total_pdf_pages(d), DOMAIN by_page)
        count == Cardinality(range)
        mapped == \A i \in 1..Len(pages_data) : pages_data[i].form # "null"
    IN  [ok |-> pages_data # << >> /\ mapped /\ count > 0,
         processed_pages |-> [i \in 1..count |-> final_page(d, by_page, i)],
         missing_pages |-> {n \in range : n \notin DOMAIN by_page \/ by_page[n].form # "dict"},
         sets_incomplete |-> FALSE,
         incomplete_pages |-> {}]

\* The page record _load_from_individual_files builds for page_num.
legacy_page(d, page_num) ==
    IF d.json[page_num].st = "ok"
    THEN ProcessedPage(d.json[page_num].title,
                       IF d.md[page_num].st = "ok" THEN d.md[page_num].text ELSE EmptyText,
                       legacy_tables(d.json[page_num].tables),
                       d.json[page_num].keywords, page_num)
    ELSE IF d.json[page_num].st = "absent" /\ d.md[page_num].st = "ok"
    THEN ProcessedPage(Text("incomplete", page_num), d.md[page_num].text, << >>,
                       <<"incomplete_processing", "pipeline_failure">>, page_num)
    ELSE create_missing_page_placeholder(page_num)

legacy_is_incomplete(d, n) == d.json[n].st = "absent" /\ d.md[n].st = "ok"

\* Missing decided by the first-pass rendering alone.
legacy_is_missing_without_md(d, n) == d.md[n].st # "ok"

legacy_is_missing(d, n) == d.json[n].st # "ok" /\ ~legacy_is_incomplete(d, n)

_load_from_individual_files(d) ==
    LET json_by_page == {n \in PageNums : d.json[n].st # "absent"}
        md_by_page == {n \in PageNums : d.md[n].st # "absent"}
        range == page_range(total_pdf_pages(d), json_by_page \cup md_by_page)
        count == Cardinality(range)
    IN  [ok |-> json_by_page # {} /\ count > 0,
         processed_pages |-> [i \in 1..count |-> legacy_page(d, i)],
         missing_pages |-> {n \in range : legacy_is_missing(d, n)},
         sets_incomplete |-> TRUE,
         incomplete_pages |-> {n \in range : legacy_is_incomplete(d, n)}]

\* dict.update: the keys of b are added to a, replacing equal keys.
dict_update(a, b) ==
    [k \in (DOMAIN a) \cup (DOMAIN b) |-> IF k \in DOMAIN b THEN b[k] ELSE a[k]]

valid_page_indices(s) == 0..(Len(s.processed_pages) - 1)

\* The cleanup render_sidebar makes on every script run: a key that is not
\* one of the ints 0..total_pages-1 is dropped (a str key never equals an int).
clean_statuses(s) ==
    [s EXCEPT
       !.page_statuses =
           [k \in {x \in DOMAIN s.page_statuses :
                      x.t = "int" /\ x.v \in valid_page_indices(s)} |-> s.page_statuses[k]],
       !.flagged_pages = {p \in s.flagged_pages : p \in valid_page_indices(s)}]

\* _finalize_document_loading, up to its st.rerun().
_finalize_document_loading(s, d, res) ==
    LET fresh == [s EXCEPT
                    !.processed_pages = res.processed_pages,
                    !.document_folder = "doc",
                    !.current_page_idx = 0,
                    !.page_statuses =
                        [k \in {IntKey(i) : i \in 0..(Len(res.processed_pages) - 1)} |-> "pending"],
                    !.flagged_pages = {},
                    !.edit_mode = FALSE,
                    !.missing_pages = res.missing_pages,
                    !.incomplete_pages =
                        IF res.sets_incomplete THEN res.incomplete_pages ELSE s.incomplete_pages]
        m == d.meta
    IN  IF m.st # "ok" THEN fresh
        ELSE IF ~m.full THEN [fresh EXCEPT !.portfolio_tag = m.portfolio]
        ELSE [fresh EXCEPT
                !.portfolio_tag = m.portfolio,
                !.page_statuses = dict_update(fresh.page_statuses, m.page_statuses),
                !.flagged_pages = m.flagged_pages,
                !.missing_pages = m.missing_pages,
                !.incomplete_pages = m.incomplete_pages,
                !.useless_pages = m.useless_pages]

\* load_processed_document: the schema is chosen by file presence.
load_result(d) ==
    IF d.final.exists THEN _load_from_final_output(d)
    ELSE IF d.json_dir /\ d.md_dir THEN _load_from_individual_files(d)
    ELSE [ok |-> FALSE, processed_pages |-> << >>, missing_pages |-> {},
          sets_incomplete |-> FALSE, incomplete_pages |-> {}]

\* The session after the load button: unchanged when the load gave up,
\* otherwise finalized and re-rendered (st.rerun runs render_sidebar).
load_processed_document(s, d) ==
    IF load_result(d).ok
    THEN clean_statuses(_finalize_document_loading(s, d, load_result(d)))
    ELSE s

(***************************************************************************)
(* Saving.                                                                 *)
(***************************************************************************)
\* Where an I/O or serialization error strikes during a save, if anywhere.
\* at: "temp" (writing the temporary file), "move" (the rename), "json" and
\* "md" (the per-page files of page n), "meta" (inspector_metadata.json).
\* how: "open" (the file could not be opened: it is untouched) or "write"
\* (the error came after open(..., 'w') truncated it).
NoFailure == [at |-> "none", n |-> 0, how |-> "none"]

Failure(at, n, how) == [at |-> at, n |-> n, how |-> how]

ConsolidatedFailures ==
    {Failure("temp", 0, "write"), Failure("move", 0, "write")}

LegacyFailures ==
    {Failure(at, n, how) : at \in {"json", "md"}, n \in PageNums, how \in {"open", "write"}}

MetadataFailures == {Failure("meta", 0, how) : how \in {"open", "write"}}

\* int keys become strings in a JSON object.
json_keys(statuses) ==
    [k \in {StrKey(x.v) : x \in DOMAIN statuses} |->
        IF k \in DOMAIN statuses THEN statuses[k] ELSE statuses[IntKey(k.v)]]

\* The tables a consolidated save stores for an entry: the session's tables,
\* by index over the entry's tables, new ones with a minted table_id.
\* Every table written anew with a minted table_id.
rebuilt_tables(entry_tables, page_tables) ==
    [j \in 1..Len(page_tables) |->
        FinalTable(Text("table", j), page_tables[j].title, page_tables[j].data)]

updated_tables(entry_tables, page_tables) ==
    [j \in 1..Len(page_tables) |->
        IF j <= Len(entry_tables)
        THEN [entry_tables[j] EXCEPT !.title = page_tables[j].title,
                                     !.rows = page_tables[j].data]
        ELSE FinalTable(Text("table", j), page_tables[j].title, page_tables[j].data)]

\* The update of one entry of final_data['pages'] from the page at the same
\* position of processed_pages.
updated_entry(entry, page) ==
    [entry EXCEPT
       !.title = page.title,
       !.keywords = page.keywords,
       !.raw_content = IF Truthy(page.content) THEN page.content ELSE entry.raw_content,
       !.content = IF Truthy(page.content) THEN page.content ELSE entry.content,
       !.tables = updated_tables(entry.tables, page.tables)]

\* final_data after the update loop of _save_to_final_output.
updated_final(final, processed_pages) ==
    IF ~final.has_pages THEN final
    ELSE [final EXCEPT
            !.pages = [i \in 1..Len(final.pages) |->
                          IF i <= Len(processed_pages)
                          THEN updated_entry(final.pages[i], processed_pages[i])
                          ELSE final.pages[i]]]

\* _save_to_final_output: [raised, disk].  The temporary file is removed on
\* failure and the rename replaces the file as a whole.  Assigning a key of an
\* entry that is not an object raises before anything is written.
_save_to_final_output(d, s, fail) ==
    IF \/ fail.at \in {"temp", "move"}
       \/ \E i \in 1..Len(d.final.pages) :
             i <= Len(s.processed_pages) /\ d.final.pages[i].form # "dict"
    THEN [raised |-> TRUE, disk |-> d]
    ELSE [raised |-> FALSE,
          disk |-> [d EXCEPT !.final = updated_final(d.final, s.processed_pages)]]

\* The pages _save_to_individual_files writes: all but those whose title
\* starts with the missing-placeholder marker.
written_pages(s) ==
    {s.processed_pages[i].pdf_page_number : i \in
        {x \in 1..Len(s.processed_pages) : s.processed_pages[x].title.k # "missing"}}

page_of(s, n) ==
    s.processed_pages[CHOOSE i \in 1..Len(s.processed_pages) :
                          s.processed_pages[i].pdf_page_number = n]

\* page_<n>.json as written from the session's page.
saved_json(page) == JsonFile(page.title, page.keywords, page.tables)

\* page_<n>.md as written from the session's page.
saved_md(page) == MdFile(IF Truthy(page.content) THEN page.content ELSE EmptyText)

\* _save_to_individual_files: [raised, disk].  Files are written in place, in
\* page order, the JSON files first; an error stops the loop where it strikes.
_save_to_individual_files(d, s, fail) ==
    LET W == written_pages(s)
        json_hit == fail.at = "json" /\ fail.n \in W
        md_hit == ~json_hit /\ d.md_dir /\ fail.at = "md" /\ fail.n \in W
        json_after ==
            [n \in PageNums |->
                IF n \notin W THEN d.json[n]
                ELSE IF ~json_hit \/ n < fail.n THEN saved_json(page_of(s, n))
                ELSE IF n = fail.n /\ fail.how = "write" THEN PartialJsonFile
                ELSE d.json[n]]
        md_after ==
            [n \in PageNums |->
                IF n \notin W \/ json_hit \/ ~d.md_dir THEN d.md[n]
                ELSE IF ~md_hit \/ n < fail.n THEN saved_md(page_of(s, n))
                ELSE IF n = fail.n /\ fail.how = "write" THEN MdFile(PartialText)
                ELSE d.md[n]]
    IN  [raised |-> json_hit \/ md_hit,
         disk |-> [d EXCEPT !.json = json_after, !.md = md_after]]

\* datetime.now(): the clock advances between two user actions.
now == MaxOps - ops + 1

\* _save_inspector_metadata: the file is written in place and any error is
\* shown with st.error, not raised.
_save_inspector_metadata(d, s, fail) ==
    IF fail.at = "meta"
    THEN (IF fail.how = "write" THEN [d EXCEPT !.meta = PartialMetadata] ELSE d)
    ELSE [d EXCEPT !.meta =
             [st |-> "ok", full |-> TRUE,
              page_statuses |-> json_keys(s.page_statuses),
              flagged_pages |-> s.flagged_pages,
              missing_pages |-> s.missing_pages,
              incomplete_pages |-> s.incomplete_pages,
              useless_pages |-> s.useless_pages,
              portfolio |-> s.portfolio_tag,
              last_updated |-> now]]

\* save_current_state: [raised, failed, disk].  raised: the exception reached
\* the caller; failed: some write of the save did not complete.
save_current_state(d, s, fail) ==
    IF s.document_folder = "None" \/ s.processed_pages = << >>
    THEN [raised |-> FALSE, failed |-> FALSE, disk |-> d]
    ELSE LET r == IF d.final.exists THEN _save_to_final_output(d, s, fail)
                  ELSE _save_to_individual_files(d, s, fail)
         IN  IF r.raised
             THEN [raised |-> TRUE, failed |-> TRUE, disk |-> r.disk]
             ELSE [raised |-> FALSE, failed |-> fail.at = "meta",
                   disk |-> _save_inspector_metadata(r.disk, s, fail)]

\* The failures that can strike a save of this folder.
Failures(d) ==
    {NoFailure}
    \cup (IF faults > 0
          THEN MetadataFailures
               \cup (IF d.final.exists THEN ConsolidatedFailures ELSE LegacyFailures)
          ELSE {})

\* save_portfolio_tag: the metadata file is read, its portfolio replaced, and
\* written back; a file that cannot be parsed is left alone.
save_portfolio_tag(d, s) ==
    IF d.meta.st = "partial" THEN d
    ELSE IF d.meta.st = "absent"
    THEN [d EXCEPT !.meta = [NoMetadata EXCEPT !.st = "ok", !.portfolio = s.portfolio_tag,
                                               !.last_updated = now]]
    ELSE [d EXCEPT !.meta.portfolio = s.portfolio_tag, !.meta.last_updated = now]

(***************************************************************************)
(* User actions.  Each is one Streamlit script run: render_sidebar, then   *)
(* render_page_content with the widget that was used.                      *)
(***************************************************************************)
total_pages == Len(session_state.processed_pages)

current_page == session_state.processed_pages[session_state.current_page_idx + 1]

\* render_page_content shows the editors and the action buttons only for a
\* loaded document whose current page is not in useless_pages.
ButtonsShown ==
    /\ session_state.processed_pages # << >>
    /\ current_page.pdf_page_number \notin session_state.useless_pages

\* ops and faults after an action that uses up one of the run's actions.
Counted(failed) ==
    /\ ops' = ops - 1
    /\ faults' = IF failed /\ faults > 0 THEN faults - 1 ELSE faults

\* The sidebar's load button.
LoadDocument ==
    /\ ops > 0
    /\ session_state' = load_processed_document(session_state, disk)
    /\ last' = Did(IF load_result(disk).ok THEN "load" ELSE "load_error", FALSE, FALSE)
    /\ Counted(FALSE)
    /\ UNCHANGED disk
    /\ UNCHANGED aux

PreviousPage ==
    /\ session_state.processed_pages # << >>
    /\ session_state.current_page_idx > 0
    /\ session_state' = [session_state EXCEPT !.current_page_idx = @ - 1]
    /\ UNCHANGED <<disk, last, ops, faults>>
    /\ UNCHANGED aux

\* "Next" without the test against the last page.
NextPageUnbounded ==
    /\ session_state.processed_pages # << >>
    /\ session_state' = [session_state EXCEPT !.current_page_idx = @ + 1]
    /\ UNCHANGED <<disk, last, ops, faults>>
    /\ UNCHANGED aux

NextPage ==
    /\ session_state.processed_pages # << >>
    /\ session_state.current_page_idx < total_pages - 1
    /\ session_state' = [session_state EXCEPT !.current_page_idx = @ + 1]
    /\ UNCHANGED <<disk, last, ops, faults>>
    /\ UNCHANGED aux

\* The "Jump to page" selectbox and the quick-navigation buttons.
JumpToPage ==
    /\ session_state.processed_pages # << >>
    /\ \E new_page \in 0..(total_pages - 1) :
          /\ new_page # session_state.current_page_idx
          /\ session_state' = [session_state EXCEPT !.current_page_idx = new_page]
    /\ UNCHANGED <<disk, last, ops, faults>>
    /\ UNCHANGED aux

\* "Edit Mode": the editors are shown from the next run on.
StartEditing ==
    /\ ButtonsShown
    /\ ~session_state.edit_mode
    /\ session_state' = [session_state EXCEPT !.edit_mode = TRUE]
    /\ UNCHANGED <<disk, last, ops, faults>>
    /\ UNCHANGED aux

\* "Stop Editing": the state is saved first and an error of the save is
\* shown; the mode is left either way.
StopEditing ==
    /\ ops > 0
    /\ ButtonsShown
    /\ session_state.edit_mode
    /\ \E fail \in Failures(disk) :
          LET r == save_current_state(disk, session_state, fail)
          IN  /\ disk' = r.disk
              /\ last' = Did("stop_editing", r.failed, r.raised)
              /\ Counted(r.failed)
    /\ session_state' = [session_state EXCEPT !.edit_mode = FALSE]
    /\ UNCHANGED aux

\* The markdown editor saving to disk on every change.
EditMarkdownAutosave ==
    /\ ops > 0
    /\ ButtonsShown
    /\ session_state.edit_mode
    /\ \E edited_content \in {EditedText, EmptyText} :
          /\ edited_content # current_page.content
          /\ session_state' =
                [session_state EXCEPT
                   !.processed_pages[session_state.current_page_idx + 1].content = edited_content]
    /\ disk' = save_current_state(disk, session_state', NoFailure).disk
    /\ last' = Did("edit_markdown", FALSE, FALSE)
    /\ Counted(FALSE)
    /\ UNCHANGED aux

\* The markdown editor: the typed text replaces the page's content in memory.
EditMarkdown ==
    /\ ops > 0
    /\ ButtonsShown
    /\ session_state.edit_mode
    /\ \E edited_content \in {EditedText, EmptyText} :
          /\ edited_content # current_page.content
          /\ session_state' =
                [session_state EXCEPT
                   !.processed_pages[session_state.current_page_idx + 1].content = edited_content]
    /\ last' = Did("edit_markdown", FALSE, FALSE)
    /\ Counted(FALSE)
    /\ UNCHANGED disk
    /\ UNCHANGED aux

\* The table JSON editor, shown in edit mode for a table that has rows: the
\* parsed "data" replaces the table's rows in memory.
EditTableJson ==
    /\ ops > 0
    /\ ButtonsShown
    /\ session_state.edit_mode
    /\ \E i \in 1..Len(current_page.tables), data \in {<<"row_edited">>, << >>} :
          /\ current_page.tables[i].data # << >>
          /\ data # current_page.tables[i].data
          /\ session_state' =
                [session_state EXCEPT
                   !.processed_pages[session_state.current_page_idx + 1].tables[i].data = data]
    /\ last' = Did("edit_table", FALSE, FALSE)
    /\ Counted(FALSE)
    /\ UNCHANGED disk
    /\ UNCHANGED aux

\* Approval of every page of the document at once.
approved_all(s) ==
    [s EXCEPT
       !.page_statuses = [k \in {IntKey(i) : i \in valid_page_indices(s)} |-> "approved"],
       !.flagged_pages = {}]

\* The in-memory part of "Approve Page".
approved(s) ==
    [s EXCEPT
       !.page_statuses = dict_update(@, [k \in {IntKey(s.current_page_idx)} |-> "approved"]),
       !.flagged_pages = @ \ {s.current_page_idx}]

\* "Approve Page": the status is set, then the state is saved; an exception
\* of the save leaves the button handler.
ApprovePage ==
    /\ ops > 0
    /\ ButtonsShown
    /\ session_state' = approved(session_state)
    /\ \E fail \in Failures(disk) :
          LET r == save_current_state(disk, approved(session_state), fail)
          IN  /\ disk' = r.disk
              /\ last' = Did("approve", r.failed, r.raised)
              /\ Counted(r.failed)
    /\ UNCHANGED aux

\* The in-memory part of mark_page_as_useless(page_index).
marked_useless(s, page_index) ==
    LET page == s.processed_pages[page_index + 1]
        page_number == page.pdf_page_number
    IN  [s EXCEPT
           !.processed_pages[page_index + 1] =
               ProcessedPage(Text("useless_title", page_number), UselessText,
                             [i \in 1..Len(page.tables) |-> UselessTable],
                             <<"useless">>, page_number),
           !.useless_pages = @ \cup {page_number},
           !.page_statuses = [k \in (DOMAIN @) \ {IntKey(page_index)} |-> @[k]],
           !.flagged_pages = @ \ {page_index}]

\* "Mark as Useless": mark_page_as_useless overwrites the page, saves, and
\* returns False when the save raised.
MarkAsUseless ==
    /\ ops > 0
    /\ ButtonsShown
    /\ session_state' = marked_useless(session_state, session_state.current_page_idx)
    /\ \E fail \in Failures(disk) :
          LET r == save_current_state(disk, session_state', fail)
          IN  /\ disk' = r.disk
              /\ last' = Did("useless", r.failed, r.raised)
              /\ Counted(r.failed)
    /\ UNCHANGED aux

\* "Save Changes".
SaveChanges ==
    /\ ops > 0
    /\ ButtonsShown
    /\ \E fail \in Failures(disk) :
          LET r == save_current_state(disk, session_state, fail)
          IN  /\ disk' = r.disk
              /\ last' = Did("save", r.failed, r.raised)
              /\ Counted(r.failed)
    /\ UNCHANGED session_state
    /\ UNCHANGED aux

\* The portfolio selectbox of the sidebar: a changed selection is stored and
\* written to the metadata file at once.
SelectPortfolio ==
    /\ ops > 0
    /\ session_state.processed_pages # << >>
    /\ \E selected_portfolio \in {"None", "knee"} :
          /\ selected_portfolio # session_state.portfolio_tag
          /\ session_state' = [session_state EXCEPT !.portfolio_tag = selected_portfolio]
          /\ disk' = save_portfolio_tag(disk, session_state')
    /\ last' = Did("portfolio", FALSE, FALSE)
    /\ Counted(FALSE)
    /\ UNCHANGED aux

Next ==
    \/ LoadDocument
    \/ PreviousPage
    \/ NextPage
    \/ JumpToPage
    \/ StartEditing
    \/ StopEditing
    \/ EditMarkdown
    \/ EditTableJson
    \/ ApprovePage
    \/ MarkAsUseless
    \/ SaveChanges
    \/ SelectPortfolio

Spec == Init /\ [][Next]_vars

FaultSpec == FaultInit /\ [][Next]_vars

MalformedSpec == MalformedInit /\ [][Next]_vars

VariantSpec == VariantInit /\ [][Next]_vars

\* Folders reviewed before: inspector_metadata.json as _save_inspector_metadata
\* writes it for the loaded document with one page flagged.  flagged_pages
\* holds page indices: the sidebar lists it as page_idx, Approve removes
\* current_page_idx from it, export tests "i in flagged_pages".
ReviewedFolders ==
    UNION {LET s == load_processed_document(init_session_state, d)
           IN  {[d EXCEPT !.meta =
                    [st |-> "ok", full |-> TRUE,
                     page_statuses |-> json_keys(s.page_statuses),
                     flagged_pages |-> {i},
                     missing_pages |-> s.missing_pages,
                     incomplete_pages |-> s.incomplete_pages,
                     useless_pages |-> s.useless_pages,
                     portfolio |-> s.portfolio_tag,
                     last_updated |-> 0]] : i \in valid_page_indices(s)} :
           d \in Folders}

\* A fresh session on a folder that was reviewed before; no I/O error strikes.
ReviewedInit ==
    /\ disk \in ReviewedFolders
    /\ session_state = init_session_state
    /\ last = NoAction
    /\ ops = MaxOps
    /\ faults = 0
    /\ Alone

ReviewedSpec == ReviewedInit /\ [][Next]_vars

(***************************************************************************)
(* Two document folders in processed_documents/: the one the session has   *)
(* loaded or is about to load (disk) and another one (shelf).              *)
(***************************************************************************)
TwoDocFolders ==
    {ConsolidatedFolder(PageNums, FALSE, NoPdf),
     ConsolidatedFolder({1}, FALSE, NoPdf),
     LegacyFolder(PageNums, PageNums, NoPdf),
     LegacyFolder({1}, PageNums, NoPdf),
     LegacyFolder({}, {}, NoPdf)}

TwoDocInit ==
    /\ disk \in TwoDocFolders
    /\ shelf \in TwoDocFolders
    /\ session_state = init_session_state
    /\ last = NoAction
    /\ ops = MaxOps
    /\ faults = 0
    /\ writers = NoWriters
    /\ bundle = NoBundle

\* The other folder is selected in the sidebar and the load button pressed:
\* when the load succeeds the session is on that folder from now on,
\* otherwise it stays as it is, on the folder it had.
LoadOtherDocument ==
    /\ ops > 0
    /\ shelf # NoFolder
    /\ IF load_result(shelf).ok
       THEN /\ session_state' = load_processed_document(session_state, shelf)
            /\ disk' = shelf
            /\ shelf' = disk
            /\ last' = Did("load", FALSE, FALSE)
       ELSE /\ last' = Did("load_error", FALSE, FALSE)
            /\ UNCHANGED <<session_state, disk, shelf>>
    /\ Counted(FALSE)
    /\ UNCHANGED <<writers, bundle>>

TwoDocNext == Next \/ LoadOtherDocument

TwoDocSpec == TwoDocInit /\ [][TwoDocNext]_vars

(***************************************************************************)
(* Export: "Create Final Output Folder" and "Export Final".                *)
(***************************************************************************)
\* The files create_final_output_folder puts into the bundle, in the order
\* it writes them: the copies of the PDF, of inspector_metadata.json and of
\* final_output.json where the folder has them, then <doc>_final.json and
\* <doc>_final.md.
export_files(d) ==
    (IF d.pdf.exists THEN <<"pdf">> ELSE << >>)
    \o (IF d.meta.st # "absent" THEN <<"inspector_metadata.json">> ELSE << >>)
    \o (IF d.final.exists THEN <<"original_final_output.json">> ELSE << >>)
    \o <<"final.json", "final.md">>

\* The bundle after create_final_output_folder: the whole body is one try
\* block, so the error at file number fail_at (0: none) ends the export; it is
\* shown once with st.error and the success message is not shown.
create_final_output_folder(d, fail_at) ==
    LET files == export_files(d)
    IN  IF fail_at = 0
        THEN [files |-> Range(files), stopped_at |-> "none", errors |-> 0, success |-> TRUE]
        ELSE [files |-> {files[k] : k \in 1..(fail_at - 1)},
              stopped_at |-> files[fail_at], errors |-> 1, success |-> FALSE]

\* The export button of the sidebar or of the page.
ExportFinalOutput ==
    /\ ops > 0
    /\ session_state.document_folder # "None"
    /\ session_state.processed_pages # << >>
    /\ \E fail_at \in 0..(IF faults > 0 THEN Len(export_files(disk)) ELSE 0) :
          /\ bundle' = create_final_output_folder(disk, fail_at)
          /\ last' = Did("export", fail_at # 0, FALSE)
          /\ Counted(fail_at # 0)
    /\ UNCHANGED <<disk, session_state, shelf, writers>>

ExportNext == Next \/ ExportFinalOutput

\* A fresh session with the export button in use, in an environment where
\* writes can fail.
ExportSpec == FaultInit /\ [][ExportNext]_vars

(***************************************************************************)
(* Several inspector processes on one consolidated folder.  Each loaded    *)
(* the document, reviewed it, and runs save_current_state; the steps of    *)
(* the saves interleave.                                                   *)
(***************************************************************************)
Writers == 1..NumWriters

\* The sessions a reviewer can be in when the save starts: the document
\* loaded, then a page approved, a page marked useless, or a page's markdown
\* edited.
ReviewedSessions(d) ==
    LET s == load_processed_document(init_session_state, d)
    IN  UNION {{approved([s EXCEPT !.current_page_idx = i]),
                marked_useless(s, i),
                [s EXCEPT !.processed_pages[i + 1].content = EditedText]} :
               i \in valid_page_indices(s)}

\* A process about to save: pc is its position in save_current_state,
\* final_data its copy of the file's data, temp its temporary file.
Writer(s) == [pc |-> "ready", s |-> s, final_data |-> NoFinal, temp |-> NoFinal]

ConcurrentInit ==
    /\ disk \in {ConsolidatedFolder(S, FALSE, NoPdf) : S \in (SUBSET PageNums) \ {{}}}
    /\ writers \in [Writers -> {Writer(s) : s \in ReviewedSessions(disk)}]
    /\ session_state = init_session_state
    /\ last = NoAction
    /\ ops = MaxOps
    /\ faults = 0
    /\ shelf = NoFolder
    /\ bundle = NoBundle

\* json.load of final_output.json and the update loop on the loaded data.
ReadFinal(w) ==
    /\ writers[w].pc = "ready"
    /\ writers' = [writers EXCEPT
                     ![w].pc = "read",
                     ![w].final_data = updated_final(disk.final, writers[w].s.processed_pages)]
    /\ UNCHANGED <<disk, session_state, last, ops, faults, shelf, bundle>>

\* json.dump into a NamedTemporaryFile of the folder: a name no other process
\* uses.
DumpTemp(w) ==
    /\ writers[w].pc = "read"
    /\ writers' = [writers EXCEPT ![w].pc = "dumped", ![w].temp = writers[w].final_data]
    /\ UNCHANGED <<disk, session_state, last, ops, faults, shelf, bundle>>

\* The file made of the first entry of the temporary file and the rest of
\* the file in place.
moved_first_entry(final, temp) ==
    [final EXCEPT !.pages[1] = temp.pages[1]]

\* shutil.move within one directory: a rename, which replaces the file as a
\* whole.
moved(final, temp) == temp

MoveTemp(w) ==
    /\ writers[w].pc = "dumped"
    /\ disk' = [disk EXCEPT !.final = moved(disk.final, writers[w].temp)]
    /\ writers' = [writers EXCEPT ![w].pc = "moved", ![w].temp = NoFinal]
    /\ UNCHANGED <<session_state, last, ops, faults, shelf, bundle>>

\* _save_inspector_metadata, the last step of save_current_state.
SaveMetadata(w) ==
    /\ writers[w].pc = "moved"
    /\ disk' = _save_inspector_metadata(disk, writers[w].s, NoFailure)
    /\ writers' = [writers EXCEPT ![w].pc = "done"]
    /\ UNCHANGED <<session_state, last, ops, faults, shelf, bundle>>

ConcurrentNext ==
    \E w \in Writers :
        \/ ReadFinal(w)
        \/ DumpTemp(w)
        \/ MoveTemp(w)
        \/ SaveMetadata(w)

ConcurrentSpec == ConcurrentInit /\ [][ConcurrentNext]_vars

(***************************************************************************)
(* Properties.                                                             *)
(***************************************************************************)
pages == session_state.processed_pages

\* A step that is a load which replaced the session.
Reloaded == last'.op = "load" /\ ops' = ops - 1

\* The page numbers the extracted data of the folder holds.
ObservedPageNumbers ==
    IF disk.final.exists
    THEN {entry_page_num(disk.final.pages[i], i) : i \in 1..Len(disk.final.pages)}
    ELSE {n \in PageNums : disk.json[n].st # "absent" \/ disk.md[n].st # "absent"}

\* C1: after every successful load the page sequence is dense and ascending
\* from 1: the record at index i (0-based) has pdf_page_number i + 1.
C1_DenseAscending ==
    \A i \in 1..Len(pages) : pages[i].pdf_page_number = i

\* A load gave a placeholder in front of an extracted page: the extracted
\* page numbers were sparse.
C1_Witness ==
    /\ last.op = "load"
    /\ \E i, j \in 1..Len(pages) :
          /\ i < j
          /\ pages[i].title.k = "missing"
          /\ pages[j].title.k = "title"

\* C2: after a successful load the number of pages is the PDF's page count
\* when the PDF is present and readable, otherwise the highest page number
\* observed in the extracted data.
C2_PageCount ==
    last.op = "load" =>
        Len(pages) = IF disk.pdf.exists /\ disk.pdf.pages > 0
                     THEN disk.pdf.pages
                     ELSE Max(ObservedPageNumbers)

\* A load on a folder whose extracted data reaches beyond the PDF's last page.
C2_Witness ==
    /\ last.op = "load"
    /\ disk.pdf.exists
    /\ disk.pdf.pages > 0
    /\ Max(ObservedPageNumbers) > disk.pdf.pages
    /\ Len(pages) = disk.pdf.pages

\* The page numbers of the loaded range the extracted data does not hold.
AbsentPages ==
    {n \in 1..Len(pages) :
        IF disk.final.exists THEN n \notin ObservedPageNumbers
        ELSE disk.json[n].st # "ok" /\ disk.md[n].st # "ok"}

is_missing_placeholder(page) ==
    /\ page.title.k = "missing"
    /\ page.tables = << >>
    /\ Truthy(page.content)

\* C3: after a load, every page number of the range that the extracted data
\* does not hold is a missing placeholder with non-empty content, and
\* missing_pages is exactly the set of those page numbers.
C3_MissingPagesExact ==
    last.op = "load" =>
        /\ \A n \in AbsentPages : is_missing_placeholder(pages[n])
        /\ session_state.missing_pages = AbsentPages

\* The session but for the cursor, the edit mode and the review statuses:
\* pages with title, content, keywords and tables, and the classification sets.
SessionContent(s) ==
    [processed_pages |-> s.processed_pages,
     missing_pages |-> s.missing_pages,
     incomplete_pages |-> s.incomplete_pages,
     useless_pages |-> s.useless_pages]

\* C4: a load that follows a successful save at once reproduces the session
\* that was saved (no page was marked useless).
C4_SaveLoadRoundTrip ==
    [][(/\ last.op \in {"save", "stop_editing"}
        /\ ~last.failed
        /\ session_state.useless_pages = {}
        /\ Reloaded)
       => SessionContent(session_state') = SessionContent(session_state)]_vars

\* A step in which a write of a save did not complete.
FailedSave == ops' = ops - 1 /\ last'.failed

\* C5: a failed save leaves every file of the folder with its complete
\* content from before the save, and the error reaches the caller.
C5_FailedSaveLeavesFilesIntact ==
    [][FailedSave => (disk' = disk /\ last'.reported)]_vars

\* C6: whenever a write of a save fails, save_current_state raises to its
\* caller.
C6_SaveErrorsReported ==
    last.failed => last.reported

\* C7: a page approved (and saved) is reported approved after the folder is
\* loaded again.
C7_ApprovalSurvivesReload ==
    [][(/\ last.op = "approve"
        /\ ~last.failed
        /\ Reloaded)
       => page_status(session_state'.page_statuses, last.idx) = "approved"]_vars

\* C8: a page number is in at most one of missing_pages, incomplete_pages and
\* useless_pages.
C8_ClassificationsDisjoint ==
    /\ session_state.missing_pages \cap session_state.incomplete_pages = {}
    /\ session_state.missing_pages \cap session_state.useless_pages = {}
    /\ session_state.incomplete_pages \cap session_state.useless_pages = {}

is_useless_record(page) ==
    /\ page.content = UselessText
    /\ page.keywords = <<"useless">>
    /\ page.tables = <<UselessTable>>

\* C9: every page whose number is in useless_pages has content "useless",
\* keywords ["useless"] and exactly one table, the useless table.
C9_UselessPagesOverwritten ==
    \A i \in 1..Len(pages) :
        pages[i].pdf_page_number \in session_state.useless_pages => is_useless_record(pages[i])

\* C10: a page marked useless (and saved) comes back from a reload with
\* content "useless", the single useless table, and its number in
\* useless_pages.
C10_UselessSurvivesReload ==
    [][(/\ last.op = "useless"
        /\ ~last.failed
        /\ Reloaded)
       => LET page == session_state'.processed_pages[last.idx + 1]
          IN  /\ page.content = UselessText
              /\ page.tables = <<UselessTable>>
              /\ page.pdf_page_number \in session_state'.useless_pages]_vars

\* A step that ran save_current_state on the consolidated file and raised
\* nothing.
ConsolidatedSaved ==
    /\ ops' = ops - 1
    /\ last'.op \in {"save", "stop_editing", "approve", "useless"}
    /\ ~last'.reported
    /\ disk.final.exists

\* C11: a consolidated save never deletes a table: every entry of
\* final_output.json holds at least as many tables after the save as before.
C11_SaveKeepsTables ==
    [][ConsolidatedSaved =>
          \A i \in 1..Len(disk.final.pages) :
              Len(disk'.final.pages[i].tables) >= Len(disk.final.pages[i].tables)]_vars

\* A step that is a save which follows a save at once, the session untouched,
\* no write failing in either.
SavedAgain ==
    /\ last.op = "save"
    /\ ~last.failed
    /\ ops' = ops - 1
    /\ last'.op = "save"
    /\ ~last'.failed
    /\ session_state' = session_state

\* C12: a second save with no session change in between leaves every file of
\* the folder as the first save wrote it.
C12_SaveIdempotent ==
    [][SavedAgain => disk' = disk]_vars

\* The extracted data of the folder holds page n with at least one table row.
HasTableRows(n) ==
    IF disk.final.exists
    THEN \E i \in 1..Len(disk.final.pages) :
            /\ entry_page_num(disk.final.pages[i], i) = n
            /\ \E j \in 1..Len(disk.final.pages[i].tables) :
                  disk.final.pages[i].tables[j].rows # << >>
    ELSE /\ disk.json[n].st = "ok"
         /\ \E j \in 1..Len(disk.json[n].tables) : disk.json[n].tables[j].data # << >>

\* C13: after a load, a page the extracted data holds with at least one table
\* row is not in missing_pages and its record is not a missing placeholder.
C13_PageWithRowsNotMissing ==
    last.op = "load" =>
        \A n \in 1..Len(pages) :
            HasTableRows(n) =>
                /\ n \notin session_state.missing_pages
                /\ pages[n].title.k # "missing"

\* A reload that restored a list of missing pages from inspector_metadata.json
\* next to a page with table rows.
C13_Witness ==
    /\ last.op = "load"
    /\ disk.meta.st = "ok"
    /\ disk.meta.missing_pages # {}
    /\ session_state.missing_pages # {}
    /\ \E n \in 1..Len(pages) : HasTableRows(n)

\* A step that is "Approve Page" on a page whose status is pending.
ApprovedPending ==
    /\ ops' = ops - 1
    /\ last'.op = "approve"
    /\ page_status(session_state.page_statuses, session_state.current_page_idx) = "pending"

\* C14: Approve on a pending page sets that page's status to approved and
\* takes it out of flagged_pages; no other page's status or flag changes.
C14_ApproveSetsOnePage ==
    [][ApprovedPending =>
          LET i == session_state.current_page_idx
          IN  /\ page_status(session_state'.page_statuses, i) = "approved"
              /\ i \notin session_state'.flagged_pages
              /\ \A j \in (0..(total_pages - 1)) \ {i} :
                    /\ page_status(session_state'.page_statuses, j)
                          = page_status(session_state.page_statuses, j)
                    /\ (j \in session_state'.flagged_pages) = (j \in session_state.flagged_pages)]_vars

\* One page was approved while the other page of the document is still pending.
C14_Witness ==
    /\ last.op = "approve"
    /\ page_status(session_state.page_statuses, last.idx) = "approved"
    /\ \E j \in 0..(total_pages - 1) :
          /\ j # last.idx
          /\ page_status(session_state.page_statuses, j) = "pending"

\* Some user action on the page shown puts it into flagged_pages.
CanFlagCurrentPage ==
    ENABLED (Next /\ session_state.current_page_idx \in session_state'.flagged_pages)

\* C15: a Flag action exists: whenever the action buttons of a page are shown
\* and the run may still act, some user action flags that page.
C15_FlagActionExists ==
    (ButtonsShown /\ ops > 0) => CanFlagCurrentPage

\* Page number n is discarded: it is in useless_pages and its record holds
\* the content "useless".
Discarded(n) ==
    /\ n \in session_state.useless_pages
    /\ n <= Len(pages)
    /\ pages[n].content = UselessText

\* C16: there is no way out of useless: whatever the user does next, a
\* discarded page stays in useless_pages, gets neither approved nor flagged,
\* and keeps the content "useless".
C16_UselessIsFinal ==
    [][\A n \in PageNums :
          (Discarded(n) /\ n <= Len(session_state'.processed_pages)) =>
             /\ n \in session_state'.useless_pages
             /\ page_status(session_state'.page_statuses, n - 1) \notin {"approved", "flagged"}
             /\ (n - 1) \notin session_state'.flagged_pages
             /\ session_state'.processed_pages[n].content = UselessText]_vars

\* A step that ran save_current_state on a folder of the legacy schema.
LegacySaved ==
    /\ ops' = ops - 1
    /\ last'.op \in {"save", "stop_editing", "approve", "useless"}
    /\ ~disk.final.exists

\* C17: a legacy save writes no file for a page that the load classified as
\* missing, and what it writes for page number n goes to page_n.json and
\* page_n.md: every other file of the folder is left as it was.
C17_LegacySaveSkipsMissing ==
    [][LegacySaved =>
          \A n \in PageNums :
              (n > Len(pages) \/ n \in session_state.missing_pages) =>
                  /\ disk'.json[n] = disk.json[n]
                  /\ disk'.md[n] = disk.md[n]]_vars

\* inspector_metadata.json records a review: a page approved or flagged, a
\* page discarded, or a portfolio tag.
DocumentEdited ==
    /\ disk.meta.st = "ok"
    /\ \/ \E k \in DOMAIN disk.meta.page_statuses :
              disk.meta.page_statuses[k] \in {"approved", "flagged"}
       \/ disk.meta.flagged_pages # {}
       \/ disk.meta.useless_pages # {}
       \/ disk.meta.portfolio # "None"

\* The content final_output.json stores for page number n.
StoredContent(n) ==
    LET i == CHOOSE x \in 1..Len(disk.final.pages) : entry_page_num(disk.final.pages[x], x) = n
        entry == disk.final.pages[i]
    IN  IF entry.raw_content # Absent THEN entry.raw_content
        ELSE IF entry.content # Absent THEN entry.content ELSE EmptyText

\* The first-pass rendering page_n.md is there.
RenderingPresent(n) == disk.md_dir /\ disk.md[n].st = "ok"

\* C18: after a load of a consolidated document, the content of every page
\* the file holds is the file's stored content when the document was edited;
\* otherwise it is page_n.md when that file is present and the stored content
\* when it is not.
C18_ContentSource ==
    (last.op = "load" /\ disk.final.exists) =>
        \A n \in ObservedPageNumbers \cap (1..Len(pages)) :
            pages[n].content =
                IF DocumentEdited THEN StoredContent(n)
                ELSE IF RenderingPresent(n) THEN disk.md[n].text
                ELSE StoredContent(n)

\* An edited document was loaded and a page took the file's content although
\* its first-pass rendering is present and differs.
C18_Witness ==
    /\ last.op = "load"
    /\ disk.final.exists
    /\ DocumentEdited
    /\ \E n \in ObservedPageNumbers \cap (1..Len(pages)) :
          /\ RenderingPresent(n)
          /\ pages[n].content # disk.md[n].text

\* The page numbers whose data in the folder is malformed.
MalformedPages ==
    IF disk.final.exists
    THEN {i \in 1..Len(disk.final.pages) : disk.final.pages[i].form # "dict"}
    ELSE {n \in PageNums : disk.json[n].st = "partial"}

\* The page numbers whose data in the folder is well-formed.
WellFormedPages ==
    IF disk.final.exists
    THEN {entry_page_num(disk.final.pages[i], i) :
             i \in {x \in 1..Len(disk.final.pages) : disk.final.pages[x].form = "dict"}}
    ELSE {n \in PageNums : disk.json[n].st = "ok"}

\* C19: a malformed page never aborts a load: the load succeeds, the page is
\* a missing placeholder and every well-formed page is loaded as a page.
C19_PageErrorsAbsorbed ==
    (last.op \in {"load", "load_error"} /\ MalformedPages # {}) =>
        /\ last.op = "load"
        /\ \A n \in (MalformedPages \ WellFormedPages) \cap (1..Len(pages)) :
              is_missing_placeholder(pages[n])
        /\ \A n \in WellFormedPages \cap (1..Len(pages)) : pages[n].title.k # "missing"

\* The number of pages a load of the legacy folder covers: the PDF's count
\* when it is known, otherwise the highest page number of any file.
LegacyPageCount ==
    IF disk.pdf.exists /\ disk.pdf.pages > 0 THEN disk.pdf.pages
    ELSE IF ObservedPageNumbers = {} THEN 0 ELSE Max(ObservedPageNumbers)

\* Page numbers within the count with page_n.md and without page_n.json.
RenderedOnly ==
    {n \in 1..LegacyPageCount : disk.md[n].st = "ok" /\ disk.json[n].st = "absent"}

is_incomplete_record(page) ==
    /\ page.tables = << >>
    /\ page.keywords = <<"incomplete_processing", "pipeline_failure">>

\* C20: a load of a legacy folder gives, for every page that has page_n.md
\* and no page_n.json, an incomplete record without tables, in
\* incomplete_pages and not in missing_pages, also when no other page has a
\* file.
C20_RenderedOnlyIsIncomplete ==
    (/\ last.op \in {"load", "load_error"}
     /\ ~disk.final.exists /\ disk.json_dir /\ disk.md_dir
     /\ disk.meta.st = "absent"
     /\ RenderedOnly # {}) =>
        /\ last.op = "load"
        /\ \A n \in RenderedOnly :
              /\ is_incomplete_record(pages[n])
              /\ n \in session_state.incomplete_pages
              /\ n \notin session_state.missing_pages

C22_ConcurrentSavesWholeFile ==
    [][disk'.final # disk.final =>
          \E w \in Writers :
              /\ writers[w].pc = "dumped"
              /\ writers'[w].pc = "moved"
              /\ disk'.final = writers[w].final_data]_vars

\* Two saves ran interleaved: both are through, the file is what the second
\* process dumped and differs from what the first dumped, and the metadata
\* file is the first's.
C22_Witness ==
    /\ writers # NoWriters
    /\ writers[1].pc = "done"
    /\ writers[2].pc = "done"
    /\ disk.final = writers[2].final_data
    /\ disk.final # writers[1].final_data
    /\ disk.meta.useless_pages = writers[1].s.useless_pages
    /\ disk.meta.useless_pages # writers[2].s.useless_pages

\* C23: export is best-effort per file: when writing one file of the bundle
\* fails, every other file of the bundle is still written.
C23_ExportBestEffort ==
    (last.op = "export" /\ last.failed) =>
        Range(export_files(disk)) \ {bundle.stopped_at} \subseteq bundle.files

\* A step that is a press of the load button.
LoadPressed ==
    /\ ops' = ops - 1
    /\ last'.op \in {"load", "load_error"}

\* final_output.json is there with a pages array that lists something.
UsablePages == disk.final.exists /\ disk.final.has_pages /\ disk.final.pages # << >>

\* Both per-page directories are there, with some page_n.json.
LegacyData ==
    /\ disk.json_dir
    /\ disk.md_dir
    /\ \E n \in PageNums : disk.json[n].st # "absent"

\* C24: a load opens the folder as consolidated when final_output.json has a
\* usable pages array, otherwise as legacy when both per-page directories
\* exist (also when a final_output.json without usable pages lies next to
\* them), and otherwise fails and leaves the session as it was.
C24_SchemaDetection ==
    [][LoadPressed =>
          IF UsablePages
          THEN /\ last'.op = "load"
               /\ session_state'.processed_pages = _load_from_final_output(disk).processed_pages
          ELSE IF LegacyData
          THEN /\ last'.op = "load"
               /\ session_state'.processed_pages = _load_from_individual_files(disk).processed_pages
          ELSE /\ last'.op = "load_error"
               /\ session_state' = session_state]_vars

\* C25: after a load of a consolidated document, every entry of the pages
\* array is the page whose number is the first that can be had of: the number
\* in its page_id, its page_number field, its array position plus one; an
\* entry whose page_id does not parse goes by its page_number.
C25_PageNumberDerivation ==
    (last.op = "load" /\ disk.final.exists) =>
        \A i \in 1..Len(disk.final.pages) :
            LET entry == disk.final.pages[i]
                n == IF entry.page_id > 0 THEN entry.page_id
                     ELSE IF entry.page_number # 0 THEN entry.page_number
                     ELSE i
            IN  (total_pdf_pages(disk) = 0 \/ n <= total_pdf_pages(disk)) =>
                    /\ n <= Len(pages)
                    /\ pages[n].title = entry.title

\* C26: typing into the markdown editor or the table editor changes the
\* session only: no file of the folder changes in any step but a save (Save
\* Changes, Stop Editing, Approve, Mark as Useless) or the writing of the
\* portfolio tag.
C26_EditsStayInMemory ==
    [][disk' # disk =>
          /\ ops' = ops - 1
          /\ last'.op \in {"save", "stop_editing", "approve", "useless", "portfolio"}]_vars

\* The markdown of a page was edited and no file of the folder holds the
\* text: neither final_output.json nor a page_n.md nor the metadata file.
C26_Witness ==
    /\ last.op = "edit_markdown"
    /\ pages[last.idx + 1].content = EditedText
    /\ \A i \in 1..Len(disk.final.pages) : disk.final.pages[i].raw_content # EditedText
    /\ \A n \in PageNums : disk.md[n].text # EditedText
    /\ disk.meta.st = "absent"

\* The last action was a save of which every write completed.
SaveSucceeded ==
    /\ last.op \in {"save", "stop_editing", "approve", "useless"}
    /\ ~last.failed

\* inspector_metadata.json holds the session's review state.
MetadataCurrent ==
    /\ disk.meta.st = "ok"
    /\ disk.meta.full
    /\ disk.meta.page_statuses = json_keys(session_state.page_statuses)
    /\ disk.meta.flagged_pages = session_state.flagged_pages
    /\ disk.meta.missing_pages = session_state.missing_pages
    /\ disk.meta.incomplete_pages = session_state.incomplete_pages
    /\ disk.meta.useless_pages = session_state.useless_pages
    /\ disk.meta.portfolio = session_state.portfolio_tag

C28_SaveMatchesPageNumbers ==
    [][ConsolidatedSaved =>
          \A i \in 1..Len(disk.final.pages) :
              LET n == entry_page_num(disk.final.pages[i], i)
                  new == disk'.final.pages[i]
                  saved == session_state'.processed_pages
              IN  \/ new = disk.final.pages[i]
                  \/ /\ n <= Len(saved)
                     /\ saved[n].title.k # "missing"
                     /\ new.title = saved[n].title
                     /\ new.keywords = saved[n].keywords]_vars

\* The review state of a session: the classification sets, the portfolio
\* tag, the status map and the flagged set.
ReviewState(s) ==
    [useless_pages |-> s.useless_pages,
     incomplete_pages |-> s.incomplete_pages,
     missing_pages |-> s.missing_pages,
     portfolio_tag |-> s.portfolio_tag,
     page_statuses |-> s.page_statuses,
     flagged_pages |-> s.flagged_pages]

\* C29: a load replaces the whole session: after a successful load the review
\* state is what a fresh session gets from the files and the metadata of the
\* folder loaded; nothing of the document reviewed before remains.
C29_LoadReplacesSession ==
    [][(ops' = ops - 1 /\ last'.op = "load") =>
          ReviewState(session_state')
              = ReviewState(load_processed_document(init_session_state, disk'))]_vars

\* C30: whenever a document is loaded the cursor is a valid page index,
\* 0 <= current_page_idx < len(processed_pages), after every step, and a
\* successful load puts it on 0.
C30_CursorInRange ==
    [][/\ session_state'.processed_pages # << >> =>
             session_state'.current_page_idx \in 0..(Len(session_state'.processed_pages) - 1)
       /\ (ops' = ops - 1 /\ last'.op = "load") => session_state'.current_page_idx = 0]_vars

\* A one-page document was loaded after the second page of another document
\* had been approved.
C30_Witness ==
    /\ last.op = "load"
    /\ Len(pages) = 1
    /\ session_state.current_page_idx = 0
    /\ StrKey(1) \in DOMAIN shelf.meta.page_statuses
    /\ shelf.meta.page_statuses[StrKey(1)] = "approved"

====
